---- MODULE Spec2Model ----
(***************************************************************************)
(* Model of players/NATHAN_bot.py: the NATHANBot decision policy.          *)
(*                                                                         *)
(* Numbers.  The bot computes with Python floats; the model uses exact     *)
(* integers in fixed units so that every comparison of the code is an      *)
(* integer comparison:                                                     *)
(*   - aggression is kept in thousandths (0.6 is 600, a win adds 10, a     *)
(*     loss subtracts 5);                                                  *)
(*   - the preflop confidence is kept in units of 1/2800 (0.4/28 is 40,    *)
(*     so 0.75 is 2100 and 0.45 is 1260);                                  *)
(*   - a raise factor is kept in tenths (2.5 is 25) and int(pot * factor)  *)
(*     is (pot * factor10) \div 10 for pot >= 0;                           *)
(*   - a pot-odds threshold is kept in tenths and pot / owed >= t is       *)
(*     10 * pot >= t10 * owed.                                             *)
(* For the inputs enumerated below the float results of the code and the   *)
(* exact results of the model fall on the same side of every threshold.    *)
(***************************************************************************)
EXTENDS Integers, Sequences, FiniteSets, TLC

VARIABLES
    aggression,            \* self.aggression, in thousandths
    last_raised_preflop,   \* self.last_raised_preflop
    hands_played,          \* self.hands_played
    hands_won,             \* self.hands_won
    opponent_stats,        \* self.opponent_stats: player -> [seen, raised, won]
    call,                  \* the public call whose result is being handed back
    ret,                   \* what that call gave its caller
    preflop_raised         \* history: the most recent preflop get_action returned RAISE

vars == <<aggression, last_raised_preflop, hands_played, hands_won,
          opponent_stats, call, ret, preflop_raised>>

----------------------------------------------------------------------------
(* Names and values of the collaborating interfaces.                       *)

Me == "NATHAN"
Opp == "opp1"

FOLD == "FOLD"
CHECK == "CHECK"
CALL == "CALL"
RAISE == "RAISE"

ACE == 14
KING == 13

HighCardRank == 0
PairRank == 1
TwoPairRank == 2

Max(a, b) == IF a >= b THEN a ELSE b
Min(a, b) == IF a <= b THEN a ELSE b
Abs(a) == IF a >= 0 THEN a ELSE -a

Card(r, s) == [rank |-> r, suit |-> s]
Bet(p, b) == [player |-> p, bet |-> b, is_int |-> TRUE]
BadBet(p) == [player |-> p, bet |-> 0, is_int |-> FALSE]

Returned(a, n) == [kind |-> "value", action |-> a, amount |-> n]
Raised(e) == [kind |-> "exception", action |-> e, amount |-> 0]
NoReturn == [kind |-> "none", action |-> "none", amount |-> 0]
NoCall == [op |-> "none"]

----------------------------------------------------------------------------
(* NATHANBot.__init__ tuning parameters.                                   *)

InitialAggression == 600
min_confidence_to_raise == 2100
min_confidence_to_play == 1260

----------------------------------------------------------------------------
(* GameInfoAPI, as the interface section describes it.                     *)

\* player_bets.get(name, default) on the ordered mapping
RECURSIVE bets_lookup(_, _, _, _)
bets_lookup(player_bets, name, default, i) ==
    IF i > Len(player_bets) THEN default
    ELSE IF player_bets[i].player = name THEN player_bets[i].bet
    ELSE bets_lookup(player_bets, name, default, i + 1)

bets_get(player_bets, name, default) == bets_lookup(player_bets, name, default, 1)

bets_has(player_bets, name) ==
    \E i \in DOMAIN player_bets : player_bets[i].player = name

calculate_bet_amount(current_bet, player_bet) == Max(0, current_bet - player_bet)

\* get_pot_odds(pot, owed) >= t10 / 10; owed = 0 is the "free" case
pot_odds_at_least(pot, to_call, t10) ==
    IF to_call = 0 THEN TRUE ELSE 10 * pot >= t10 * to_call

position_is_late(pos) == pos.is_last \/ pos.players_after <= 1

----------------------------------------------------------------------------
(* HandEvaluator: the ordinal of the best hand category of a card list.    *)

RanksOf(cards) == {cards[i].rank : i \in DOMAIN cards}
SuitsOf(cards) == {cards[i].suit : i \in DOMAIN cards}
CountRank(cards, r) == Cardinality({i \in DOMAIN cards : cards[i].rank = r})
CountSuit(cards, s) == Cardinality({i \in DOMAIN cards : cards[i].suit = s})

HasStraight(ranks) ==
    \/ \E lo \in 2..10 : \A k \in 0..4 : (lo + k) \in ranks
    \/ {ACE, 2, 3, 4, 5} \subseteq ranks

hand_rank_value(cards) ==
    LET ranks == RanksOf(cards)
        pairs == {r \in ranks : CountRank(cards, r) >= 2}
        trips == {r \in ranks : CountRank(cards, r) >= 3}
        quads == {r \in ranks : CountRank(cards, r) >= 4}
        flushSuits == {s \in SuitsOf(cards) : CountSuit(cards, s) >= 5}
        suited(s) == {cards[i].rank : i \in {j \in DOMAIN cards : cards[j].suit = s}}
    IN  IF \E s \in flushSuits : HasStraight(suited(s)) THEN 8
        ELSE IF quads # {} THEN 7
        ELSE IF trips # {} /\ Cardinality(pairs) >= 2 THEN 6
        ELSE IF flushSuits # {} THEN 5
        ELSE IF HasStraight(ranks) THEN 4
        ELSE IF trips # {} THEN 3
        ELSE IF Cardinality(pairs) >= 2 THEN TwoPairRank
        ELSE IF pairs # {} THEN PairRank
        ELSE HighCardRank

----------------------------------------------------------------------------
(* NATHANBot._evaluate_preflop_strength, in units of 1/2800.               *)

\* variant: the pocket-pair bonus is left out
evaluate_preflop_strength_no_pair_bonus(hole_cards) ==
    LET r1 == hole_cards[1].rank
        r2 == hole_cards[2].rank
        suited == hole_cards[1].suit = hole_cards[2].suit
        high_card_bonus == (IF Max(r1, r2) >= KING THEN 504 ELSE 0)
                           + (IF Max(r1, r2) = ACE THEN 336 ELSE 0)
        distance == Abs(r1 - r2)
        connector_bonus == IF distance <= 1 THEN 420
                           ELSE IF distance = 2 THEN 224 ELSE 0
        suited_bonus == IF suited THEN 336 ELSE 0
        base40 == (r1 + r2) * 40
    IN  Min(2800, base40 + connector_bonus + suited_bonus + high_card_bonus)

evaluate_preflop_strength(hole_cards) ==
    LET r1 == hole_cards[1].rank
        r2 == hole_cards[2].rank
        suited == hole_cards[1].suit = hole_cards[2].suit
        high_card_bonus == (IF Max(r1, r2) >= KING THEN 504 ELSE 0)
                           + (IF Max(r1, r2) = ACE THEN 336 ELSE 0)
        pair_bonus == IF r1 = r2 THEN 840 ELSE 0
        distance == Abs(r1 - r2)
        connector_bonus == IF distance <= 1 THEN 420
                           ELSE IF distance = 2 THEN 224 ELSE 0
        suited_bonus == IF suited THEN 336 ELSE 0
        base40 == (r1 + r2) * 40
        score == base40 + pair_bonus + connector_bonus + suited_bonus + high_card_bonus
    IN  Min(2800, score)

----------------------------------------------------------------------------
(* NATHANBot._choose_raise_amount; factor10 is the factor in tenths.       *)

\* variant: the target is never cut down to max_bet
choose_raise_amount_uncapped(pot, min_bet, max_bet, factor10) ==
    Max(min_bet, (pot * factor10) \div 10)

choose_raise_amount(pot, min_bet, max_bet, factor10) ==
    LET desired == (pot * factor10) \div 10
        amount1 == Max(min_bet, desired)
        amount2 == Min(amount1, max_bet)
    IN  IF amount2 < min_bet THEN min_bet ELSE amount2

----------------------------------------------------------------------------
(* NATHANBot._has_strong_draw.                                             *)

RECURSIVE SortedSeq(_)
SortedSeq(S) ==
    IF S = {} THEN <<>>
    ELSE LET m == CHOOSE x \in S : \A y \in S : x <= y
         IN  <<m>> \o SortedSeq(S \ {m})

has_strong_draw(all_cards) ==
    LET ranks == SortedSeq(RanksOf(all_cards))
        rankSet == RanksOf(all_cards)
    IN  \/ \E s \in SuitsOf(all_cards) : CountSuit(all_cards, s) >= 4
        \/ /\ Len(ranks) >= 4
           /\ \E i \in 1..(Len(ranks) - 3) : ranks[i + 3] - ranks[i] = 3
        \/ {14, 2, 3, 4} \subseteq rankSet
        \/ {2, 3, 4, 5} \subseteq rankSet

----------------------------------------------------------------------------
(* NATHANBot._should_bluff_or_value; agg in thousandths, so                *)
(* pot > 2 * max(1, agg * 10) is 100 * pot > max(200, 2 * agg).            *)

\* variant: the pot comparison is not strict
should_bluff_or_value_inclusive(agg, pot, rank_value) ==
    IF rank_value >= PairRank
    THEN 100 * pot >= Max(200, 2 * agg)
    ELSE agg > 600

should_bluff_or_value(agg, pot, rank_value) ==
    IF rank_value >= PairRank
    THEN 100 * pot > Max(200, 2 * agg)
    ELSE agg > 600

----------------------------------------------------------------------------
(* NATHANBot._preflop.                                                     *)

\* variant: a hand that reaches the raise threshold never falls through to
\* the medium-strength rule
preflop_first_match(gs, hole_cards, legal_actions, min_bet, max_bet) ==
    IF Len(hole_cards) # 2 THEN Returned(FOLD, 0)
    ELSE
    LET confidence == evaluate_preflop_strength(hole_cards)
        late == position_is_late(gs.position)
        to_call == calculate_bet_amount(gs.current_bet, bets_get(gs.player_bets, Me, 0))
        medium == confidence >= min_confidence_to_play
                  /\ confidence < min_confidence_to_raise
    IN  IF confidence >= min_confidence_to_raise /\ RAISE \in legal_actions
        THEN Returned(RAISE, choose_raise_amount(gs.pot, min_bet, max_bet,
                                                 IF late THEN 25 ELSE 20))
        ELSE IF /\ confidence >= min_confidence_to_raise
                /\ CALL \in legal_actions
                /\ to_call <= gs.big_blind * 2
        THEN Returned(CALL, 0)
        ELSE IF medium /\ to_call = 0 /\ CHECK \in legal_actions
        THEN Returned(CHECK, 0)
        ELSE IF medium /\ to_call = 0 /\ late /\ RAISE \in legal_actions
        THEN Returned(RAISE, choose_raise_amount(gs.pot, min_bet, max_bet, 15))
        ELSE IF medium /\ to_call # 0
                /\ pot_odds_at_least(gs.pot, to_call, 25)
                /\ CALL \in legal_actions
        THEN Returned(CALL, 0)
        ELSE IF CHECK \in legal_actions THEN Returned(CHECK, 0)
        ELSE Returned(FOLD, 0)

preflop(gs, hole_cards, legal_actions, min_bet, max_bet) ==
    IF Len(hole_cards) # 2 THEN Returned(FOLD, 0)
    ELSE
    LET confidence == evaluate_preflop_strength(hole_cards)
        late == position_is_late(gs.position)
        to_call == calculate_bet_amount(gs.current_bet, bets_get(gs.player_bets, Me, 0))
    IN  IF confidence >= min_confidence_to_raise /\ RAISE \in legal_actions
        THEN Returned(RAISE, choose_raise_amount(gs.pot, min_bet, max_bet,
                                                 IF late THEN 25 ELSE 20))
        ELSE IF /\ confidence >= min_confidence_to_raise
                /\ CALL \in legal_actions
                /\ to_call <= gs.big_blind * 2
        THEN Returned(CALL, 0)
        ELSE IF confidence >= min_confidence_to_play /\ to_call = 0
                /\ CHECK \in legal_actions
        THEN Returned(CHECK, 0)
        ELSE IF confidence >= min_confidence_to_play /\ to_call = 0
                /\ late /\ RAISE \in legal_actions
        THEN Returned(RAISE, choose_raise_amount(gs.pot, min_bet, max_bet, 15))
        ELSE IF confidence >= min_confidence_to_play /\ to_call # 0
                /\ pot_odds_at_least(gs.pot, to_call, 25)
                /\ CALL \in legal_actions
        THEN Returned(CALL, 0)
        ELSE IF CHECK \in legal_actions THEN Returned(CHECK, 0)
        ELSE Returned(FOLD, 0)

----------------------------------------------------------------------------
(* NATHANBot._postflop.                                                    *)

fallback_check_call_fold(legal_actions) ==
    IF CHECK \in legal_actions THEN Returned(CHECK, 0)
    ELSE IF CALL \in legal_actions THEN Returned(CALL, 0)
    ELSE Returned(FOLD, 0)

\* the "Top pair / pair" branch
postflop_pair(agg, gs, legal_actions, min_bet, max_bet, rank_value) ==
    IF CALL \in legal_actions
    THEN IF ~bets_has(gs.player_bets, Me) THEN Raised("KeyError")
         ELSE
         LET to_call == calculate_bet_amount(gs.current_bet,
                                             bets_get(gs.player_bets, Me, 0))
         IN  IF pot_odds_at_least(gs.pot, to_call, 15) \/ to_call = 0
             THEN IF RAISE \in legal_actions
                     /\ should_bluff_or_value(agg, gs.pot, rank_value)
                  THEN Returned(RAISE,
                                choose_raise_amount(gs.pot, min_bet, max_bet, 10))
                  ELSE Returned(CALL, 0)
             ELSE fallback_check_call_fold(legal_actions)
    ELSE fallback_check_call_fold(legal_actions)

\* the "Drawing hands" branch
postflop_draw(gs, legal_actions, min_bet, max_bet) ==
    LET to_call == calculate_bet_amount(gs.current_bet,
                                        bets_get(gs.player_bets, Me, 0))
    IN  IF to_call = 0 /\ RAISE \in legal_actions
        THEN Returned(RAISE, choose_raise_amount(gs.pot, min_bet, max_bet, 6))
        ELSE IF pot_odds_at_least(gs.pot, to_call, 30) /\ CALL \in legal_actions
        THEN Returned(CALL, 0)
        ELSE fallback_check_call_fold(legal_actions)

postflop(lrp, agg, gs, hole_cards, legal_actions, min_bet, max_bet) ==
    LET all_cards == hole_cards \o gs.community_cards
        rank_value == hand_rank_value(all_cards)
    IN  IF /\ lrp /\ gs.current_bet = 0 /\ RAISE \in legal_actions
           /\ (rank_value >= PairRank \/ has_strong_draw(all_cards))
        THEN Returned(RAISE, choose_raise_amount(gs.pot, min_bet, max_bet, 6))
        ELSE IF rank_value >= TwoPairRank
        THEN IF RAISE \in legal_actions
             THEN Returned(RAISE, choose_raise_amount(gs.pot, min_bet, max_bet, 10))
             ELSE fallback_check_call_fold(legal_actions)
        ELSE IF rank_value >= PairRank
        THEN postflop_pair(agg, gs, legal_actions, min_bet, max_bet, rank_value)
        ELSE IF has_strong_draw(all_cards)
        THEN postflop_draw(gs, legal_actions, min_bet, max_bet)
        ELSE fallback_check_call_fold(legal_actions)

----------------------------------------------------------------------------
(* NATHANBot.get_action: the value handed back and the new                 *)
(* last_raised_preflop.                                                    *)

\* variant: the defensive default for no legal action is CHECK
get_action_default_check(lrp, agg, gs, hole_cards, legal_actions, min_bet, max_bet) ==
    IF legal_actions = {}
    THEN [ret |-> Returned(CHECK, 0), last_raised_preflop |-> lrp]
    ELSE IF gs.round_name = "preflop"
    THEN LET action == preflop(gs, hole_cards, legal_actions, min_bet, max_bet)
         IN  [ret |-> action, last_raised_preflop |-> (action.action = RAISE)]
    ELSE [ret |-> postflop(lrp, agg, gs, hole_cards, legal_actions, min_bet, max_bet),
          last_raised_preflop |-> lrp]

get_action(lrp, agg, gs, hole_cards, legal_actions, min_bet, max_bet) ==
    IF legal_actions = {}
    THEN [ret |-> Returned(FOLD, 0), last_raised_preflop |-> lrp]
    ELSE IF gs.round_name = "preflop"
    THEN LET action == preflop(gs, hole_cards, legal_actions, min_bet, max_bet)
         IN  [ret |-> action, last_raised_preflop |-> (action.action = RAISE)]
    ELSE [ret |-> postflop(lrp, agg, gs, hole_cards, legal_actions, min_bet, max_bet),
          last_raised_preflop |-> lrp]

----------------------------------------------------------------------------
(* NATHANBot.hand_complete.                                                *)

hand_is_won(hand_result, name) ==
    hand_result.has_winners /\ name \in hand_result.winners

\* variant: a loss is not floored
hand_complete_aggression_no_floor(agg, won) ==
    IF won THEN Min(800, agg + 10) ELSE agg - 5

\* variant: the two outcomes are swapped
hand_complete_aggression_swapped(agg, won) ==
    IF won THEN Max(300, agg - 5) ELSE Min(800, agg + 10)

hand_complete_aggression(agg, won) ==
    IF won THEN Min(800, agg + 10) ELSE Max(300, agg - 5)

NewStats == [seen |-> 0, raised |-> 0, won |-> 0]

\* The loop over player_bets.items() inside the try block.  An entry whose
\* bet cannot be compared with an integer makes the comparison throw after
\* 'seen' was counted; the except clause swallows it and the loop is over.
RECURSIVE update_opponent_stats(_, _, _, _)
update_opponent_stats(stats, gs, hand_result, i) ==
    IF i > Len(gs.player_bets) THEN stats
    ELSE
    LET e == gs.player_bets[i]
        s0 == IF e.player \in DOMAIN stats THEN stats[e.player] ELSE NewStats
        s1 == [s0 EXCEPT !.seen = @ + 1]
        s2 == IF e.bet > gs.big_blind * 2 THEN [s1 EXCEPT !.raised = @ + 1] ELSE s1
        s3 == IF hand_is_won(hand_result, e.player)
              THEN [s2 EXCEPT !.won = @ + 1] ELSE s2
    IN  IF e.player = Me
        THEN update_opponent_stats(stats, gs, hand_result, i + 1)
        ELSE IF ~e.is_int
        THEN (e.player :> s1) @@ stats
        ELSE update_opponent_stats((e.player :> s3) @@ stats, gs, hand_result, i + 1)

----------------------------------------------------------------------------
(* NATHANBot.tournament_start.                                             *)

tournament_start_aggression(n_players) ==
    IF n_players <= 4 THEN 650
    ELSE IF n_players >= 8 THEN 450
    ELSE 550

----------------------------------------------------------------------------
(* Bounds and enumerated inputs.                                           *)

MaxHands == 1          \* hands per tournament in Spec and SpecStats
MaxHandsLife == 31     \* hands per tournament in SpecLife
MaxSeen == 1           \* hands an opponent is counted in

Actions == {FOLD, CHECK, CALL, RAISE}
LegalSets == SUBSET Actions

Pots == {5, 13, 40}
CurrentBets == {0, 2, 6}
BigBlinds == {2}

\* what get_action is told about the betting: pot, bet to match, the bets
\* placed so far, and the <<min_bet, max_bet>> bounds
Betting(pot, cb, bets, bounds) ==
    [pot |-> pot, current_bet |-> cb, player_bets |-> bets,
     min_bet |-> bounds[1], max_bet |-> bounds[2]]

BettingSituations ==
    { Betting(pot, cb, <<Bet(Opp, cb), Bet(Me, 0)>>, <<4, 20>>) :
        pot \in Pots, cb \in CurrentBets }
    \cup { Betting(40, cb, <<Bet(Opp, cb)>>, <<4, 20>>) : cb \in {0, 6} }
    \cup { Betting(40, 0, <<Bet(Opp, 0), Bet(Me, 0)>>, <<25, 20>>) }

LastToAct == [is_last |-> TRUE, players_after |-> 0]
OneAfter == [is_last |-> FALSE, players_after |-> 1]
TwoAfter == [is_last |-> FALSE, players_after |-> 2]
Positions == {LastToAct, OneAfter, TwoAfter}

PocketAces == <<Card(14, "s"), Card(14, "h")>>
PocketKings == <<Card(13, "s"), Card(13, "h")>>
SevenDeuce == <<Card(7, "s"), Card(2, "h")>>
JackTenSuited == <<Card(11, "s"), Card(10, "s")>>
AceDeuce == <<Card(14, "s"), Card(2, "h")>>
OneCard == <<Card(14, "s")>>

PreflopHoles == {PocketAces, PocketKings, SevenDeuce, JackTenSuited, OneCard}

RaggedFlop == <<Card(9, "d"), Card(5, "c"), Card(3, "h")>>

\* <<hole cards, community cards>> after the flop
PostflopDeals ==
    { <<PocketAces, RaggedFlop>>,                                       \* pair
      <<PocketAces, <<Card(14, "d"), Card(13, "d"), Card(2, "c")>>>>,   \* three of a kind
      <<SevenDeuce, RaggedFlop>>,                                       \* nothing
      <<JackTenSuited, <<Card(12, "s"), Card(9, "s"), Card(4, "d")>>>>, \* flush + straight draw
      <<SevenDeuce, <<Card(3, "c"), Card(4, "d"), Card(5, "h")>>>>,     \* 2-3-4-5 draw
      <<JackTenSuited, <<Card(11, "d"), Card(12, "s"), Card(9, "s")>>>>,\* pair with a draw
      <<AceDeuce, <<Card(3, "c"), Card(4, "d"), Card(9, "h")>>>> }      \* A-2-3-4 draw

GameState(round, pot, cb, bb, bets, community, pos) ==
    [round_name |-> round, pot |-> pot, current_bet |-> cb, big_blind |-> bb,
     player_bets |-> bets, community_cards |-> community, position |-> pos]

GetActionCall(round, b, bb, community, pos, hole, legal) ==
    [op |-> "get_action",
     gs |-> GameState(round, b.pot, b.current_bet, bb, b.player_bets, community, pos),
     hole_cards |-> hole, legal_actions |-> legal,
     min_bet |-> b.min_bet, max_bet |-> b.max_bet]

PreflopCalls ==
    { GetActionCall("preflop", b, bb, <<>>, pos, hole, legal) :
        b \in BettingSituations, bb \in BigBlinds, pos \in Positions,
        hole \in PreflopHoles, legal \in LegalSets }

PostflopCalls ==
    { GetActionCall("flop", b, bb, deal[2], LastToAct, deal[1], legal) :
        b \in BettingSituations, bb \in BigBlinds,
        deal \in PostflopDeals, legal \in LegalSets }

GetActionCalls == PreflopCalls \cup PostflopCalls

\* the few decisions SpecLife and SpecStats interleave with their hands
FewGetActionCalls ==
    { GetActionCall("preflop", Betting(40, 2, <<Bet(Me, 0)>>, <<4, 20>>), 2, <<>>,
                    TwoAfter, hole, {FOLD, CALL, RAISE}) :
        hole \in {PocketAces, SevenDeuce} }
    \cup
    { GetActionCall("flop", Betting(40, 0, bets, <<4, 20>>), 2, RaggedFlop,
                    LastToAct, PocketAces, {CHECK, CALL, RAISE}) :
        bets \in {<<Bet(Me, 0)>>, <<Bet(Opp, 0)>>} }

HandResults ==
    { [has_winners |-> FALSE, winners |-> {}] }
    \cup { [has_winners |-> TRUE, winners |-> w] : w \in SUBSET {Me, Opp} }

OwnFinalBets == { <<>>, <<Bet(Me, 2)>> }
FinalBets ==
    OwnFinalBets
    \cup { <<Bet(Me, 6), Bet(Opp, 2)>>, <<Bet(Opp, 6), Bet(Me, 6)>>,
           <<BadBet(Opp), Bet(Me, 2)>> }

HandCompleteCalls(bets) ==
    { [op |-> "hand_complete",
       gs |-> GameState("showdown", 40, 0, bb, pb, <<>>, LastToAct),
       hand_result |-> hr] :
        bb \in BigBlinds, pb \in bets, hr \in HandResults }

TableSizes == {3, 4, 5, 7, 8, 9}

----------------------------------------------------------------------------
(* State machine.                                                          *)

Init ==
    /\ aggression = InitialAggression
    /\ last_raised_preflop = FALSE
    /\ hands_played = 0
    /\ hands_won = 0
    /\ opponent_stats = <<>>
    /\ call = NoCall
    /\ ret = NoReturn
    /\ preflop_raised = FALSE

\* the engine calls get_action
GetAction(calls) ==
    /\ call.op = "none"
    /\ \E c \in calls :
         LET out == get_action(last_raised_preflop, aggression, c.gs, c.hole_cards,
                               c.legal_actions, c.min_bet, c.max_bet)
         IN  /\ call' = c
             /\ ret' = out.ret
             /\ last_raised_preflop' = out.last_raised_preflop
             /\ preflop_raised' = IF c.gs.round_name = "preflop"
                                  THEN out.ret.kind = "value" /\ out.ret.action = RAISE
                                  ELSE preflop_raised
    /\ UNCHANGED <<aggression, hands_played, hands_won, opponent_stats>>

\* the engine calls hand_complete
HandComplete(calls, max_hands) ==
    /\ call.op = "none"
    /\ hands_played < max_hands
    /\ \E c \in calls :
         /\ \A i \in DOMAIN c.gs.player_bets :
              LET p == c.gs.player_bets[i].player
              IN  (p # Me /\ p \in DOMAIN opponent_stats)
                      => opponent_stats[p].seen < MaxSeen
         /\ call' = c
         /\ hands_played' = hands_played + 1
         /\ hands_won' = IF hand_is_won(c.hand_result, Me)
                         THEN hands_won + 1 ELSE hands_won
         /\ aggression' = hand_complete_aggression(aggression,
                                                   hand_is_won(c.hand_result, Me))
         /\ opponent_stats' = update_opponent_stats(opponent_stats, c.gs,
                                                    c.hand_result, 1)
    /\ ret' = Returned("None", 0)
    /\ UNCHANGED <<last_raised_preflop, preflop_raised>>

\* the engine calls tournament_start
TournamentStart ==
    /\ call.op = "none"
    /\ \E n \in TableSizes :
         /\ call' = [op |-> "tournament_start", n_players |-> n]
         /\ aggression' = tournament_start_aggression(n)
    /\ hands_played' = 0
    /\ hands_won' = 0
    /\ ret' = Returned("None", 0)
    /\ UNCHANGED <<last_raised_preflop, opponent_stats, preflop_raised>>

\* the call is over: the engine has taken its result
Return ==
    /\ call.op # "none"
    /\ call' = NoCall
    /\ ret' = NoReturn
    /\ UNCHANGED <<aggression, last_raised_preflop, hands_played, hands_won,
                   opponent_stats, preflop_raised>>

Next ==
    \/ GetAction(GetActionCalls)
    \/ HandComplete(HandCompleteCalls(OwnFinalBets), MaxHands)
    \/ TournamentStart
    \/ Return

Spec == Init /\ [][Next]_vars

\* many hands in a row: the aggression walk to its cap and its floor
NextLife ==
    \/ GetAction(FewGetActionCalls)
    \/ HandComplete(HandCompleteCalls(OwnFinalBets), MaxHandsLife)
    \/ TournamentStart
    \/ Return

SpecLife == Init /\ [][NextLife]_vars

\* hands with opponents at the table: the opponent statistics
NextStats ==
    \/ GetAction(FewGetActionCalls)
    \/ HandComplete(HandCompleteCalls(FinalBets), MaxHands)
    \/ TournamentStart
    \/ Return

SpecStats == Init /\ [][NextStats]_vars

----------------------------------------------------------------------------
(* What the properties below read off the call that has just returned.     *)

IsGetAction == call.op = "get_action"
IsPreflop == IsGetAction /\ call.gs.round_name = "preflop"
IsPostflop == IsGetAction /\ call.gs.round_name # "preflop"
IsHandComplete == call.op = "hand_complete"

NamePresent == \E i \in DOMAIN call.gs.player_bets : call.gs.player_bets[i].player = Me
OwnBet ==
    IF NamePresent
    THEN (CHOOSE e \in {call.gs.player_bets[i] : i \in DOMAIN call.gs.player_bets} :
              e.player = Me).bet
    ELSE 0
Owed == IF call.gs.current_bet > OwnBet THEN call.gs.current_bet - OwnBet ELSE 0
Late == call.gs.position.is_last \/ call.gs.position.players_after <= 1
Legal(a) == a \in call.legal_actions
Clamped(desired) ==
    IF desired < call.min_bet THEN call.min_bet
    ELSE IF desired > call.max_bet THEN call.max_bet
    ELSE desired
PocketPairOfAcesOrKings ==
    /\ Len(call.hole_cards) = 2
    /\ call.hole_cards[1].rank = call.hole_cards[2].rank
    /\ call.hole_cards[1].rank \in {13, 14}
AllCards == call.hole_cards \o call.gs.community_cards

----------------------------------------------------------------------------
\* C1: whenever get_action is given a non-empty set of legal actions, the
\* action it returns is one of them.
C1_ReturnsLegalAction ==
    (IsGetAction /\ call.legal_actions # {} /\ ret.kind = "value")
        => ret.action \in call.legal_actions

----------------------------------------------------------------------------
\* C2 as stated: every amount returned with RAISE lies in [min_bet, max_bet],
\* whatever the bounds passed in.
C2_AmountWithinBounds ==
    (IsGetAction /\ ret.kind = "value" /\ ret.action = RAISE)
        => (call.min_bet <= ret.amount /\ ret.amount <= call.max_bet)

\* C2 amended: every amount returned with RAISE lies in [min_bet, max_bet]
\* when min_bet <= max_bet, and is min_bet when min_bet > max_bet.
C2_AmountWithinOrderedBounds ==
    (IsGetAction /\ ret.kind = "value" /\ ret.action = RAISE)
        => IF call.min_bet <= call.max_bet
           THEN call.min_bet <= ret.amount /\ ret.amount <= call.max_bet
           ELSE ret.amount = call.min_bet

\* a raise whose pot-sized target was cut down to max_bet
C2_Witness ==
    /\ IsGetAction /\ ret.kind = "value" /\ ret.action = RAISE
    /\ call.min_bet <= call.max_bet
    /\ call.gs.pot > call.max_bet
    /\ ret.amount = call.max_bet

----------------------------------------------------------------------------
\* C3: with no legal action get_action returns (FOLD, 0), in every round.
C3_EmptyLegalFolds ==
    (IsGetAction /\ call.legal_actions = {}) => ret = Returned(FOLD, 0)

\* a postflop call with a made hand, a preflop raise behind it and nothing legal
C3_Witness ==
    /\ IsPostflop /\ call.legal_actions = {}
    /\ hand_rank_value(AllCards) >= TwoPairRank
    /\ last_raised_preflop
    /\ ret = Returned(FOLD, 0)

----------------------------------------------------------------------------
\* C4: no public call ends by propagating an error to the engine.
C4_NoErrorPropagates == ret.kind # "exception"

----------------------------------------------------------------------------
\* C5: aggression stays within [0.3, 0.8] (300..800 thousandths).
C5_AggressionInRange == aggression >= 300 /\ aggression <= 800

\* a lost hand that would have taken aggression below the floor
C5_Witness ==
    /\ IsHandComplete /\ ~hand_is_won(call.hand_result, Me)
    /\ hands_played = 31 /\ hands_won = 0
    /\ aggression = 300

----------------------------------------------------------------------------
\* C6: a hand_complete call with the bot among the winners leaves aggression
\* strictly greater, or at 0.8 when it was there already; any other
\* hand_complete call leaves it strictly smaller, or at 0.3 when it was there
\* already.
C6_AggressionStep ==
    [][ (call.op = "none" /\ call'.op = "hand_complete")
          => IF call'.hand_result.has_winners /\ Me \in call'.hand_result.winners
             THEN \/ aggression' > aggression
                  \/ aggression = 800 /\ aggression' = 800
             ELSE \/ aggression' < aggression
                  \/ aggression = 300 /\ aggression' = 300 ]_vars

\* the 21st win in a row from the initial 0.6: the cap was reached one hand earlier
C6_Witness ==
    /\ IsHandComplete /\ hand_is_won(call.hand_result, Me)
    /\ hands_played = 21 /\ hands_won = 21
    /\ aggression = 800

----------------------------------------------------------------------------
\* C7: preflop, with pocket aces or kings and RAISE legal, get_action returns
\* RAISE with amount min(max_bet, max(min_bet, int(pot * f))), f = 2.5 in late
\* position and 2.0 otherwise, whenever min_bet <= max_bet.
C7_PremiumPairRaises ==
    (IsPreflop /\ PocketPairOfAcesOrKings /\ Legal(RAISE)
        /\ call.min_bet <= call.max_bet)
        => ret = Returned(RAISE,
                          Clamped((call.gs.pot * (IF Late THEN 25 ELSE 20)) \div 10))

\* pocket kings, one player still to act: int(5 * 2.5) = 12
C7_Witness ==
    /\ IsPreflop /\ call.hole_cards = PocketKings /\ Legal(RAISE)
    /\ call.gs.position = OneAfter /\ call.gs.pot = 5
    /\ call.min_bet = 4 /\ call.max_bet = 20
    /\ ret = Returned(RAISE, 12)

----------------------------------------------------------------------------
\* The case C8 is about: postflop, nothing owed, exactly a pair, no strong
\* draw, the continuation-bet rule not applying, some action legal.
C8_Case ==
    /\ IsPostflop /\ call.legal_actions # {}
    /\ Owed = 0
    /\ hand_rank_value(AllCards) = PairRank
    /\ ~has_strong_draw(AllCards)
    /\ ~(last_raised_preflop /\ call.gs.current_bet = 0 /\ Legal(RAISE))

C8_ValueRaiseFires == Legal(RAISE) /\ 100 * call.gs.pot > Max(200, 2 * aggression)

\* C8 as stated: in that case get_action returns CALL, or RAISE when the
\* value-raise heuristic fires, for every non-empty legal-action set.
C8_CallOrValueRaise ==
    C8_Case => /\ ret.kind = "value"
               /\ ret.action = IF C8_ValueRaiseFires THEN RAISE ELSE CALL

\* C8 amended: in that case, when CALL is legal and the bot has an entry in
\* the per-player bets, get_action returns RAISE (pot-sized, clamped) when the
\* value-raise heuristic fires and (CALL, 0) otherwise; when CALL is legal and
\* the bot has no entry, the call ends in the KeyError of C4; when CALL is not
\* legal it returns CHECK if CHECK is legal and FOLD otherwise.
C8_CallOrValueRaiseWhenCallLegal ==
    C8_Case =>
        IF Legal(CALL)
        THEN IF NamePresent
             THEN ret = IF C8_ValueRaiseFires
                        THEN Returned(RAISE, choose_raise_amount(call.gs.pot,
                                          call.min_bet, call.max_bet, 10))
                        ELSE Returned(CALL, 0)
             ELSE ret.kind = "exception"
        ELSE ret = IF Legal(CHECK) THEN Returned(CHECK, 0) ELSE Returned(FOLD, 0)

\* pot 13 against aggression 0.6: 13 > 12, the value raise fires
C8_Witness ==
    /\ C8_Case /\ Legal(CALL) /\ NamePresent /\ C8_ValueRaiseFires
    /\ call.gs.pot = 13 /\ aggression = 600
    /\ ret.action = RAISE

----------------------------------------------------------------------------
\* C9: last_raised_preflop is true exactly when the most recent preflop
\* get_action call returned RAISE.
C9_FlagIsLastPreflopDecision == last_raised_preflop = preflop_raised

----------------------------------------------------------------------------
\* The case C10 is about: a preflop decision on two hole cards with
\* confidence >= 0.75.
C10_Case ==
    /\ IsPreflop /\ call.legal_actions # {}
    /\ Len(call.hole_cards) = 2
    /\ evaluate_preflop_strength(call.hole_cards) >= 2100

C10_CheckOrFold == IF Legal(CHECK) THEN CHECK ELSE FOLD

\* C10 as stated: with confidence >= 0.75 rule 1 alone decides, so CALL is
\* never returned when the amount owed exceeds twice the big blind.
C10_FirstMatchWins ==
    (C10_Case /\ ret.action = CALL) => Owed <= 2 * call.gs.big_blind

\* C10 amended: with confidence >= 0.75, RAISE is returned if legal; else CALL
\* if CALL is legal and owed <= 2 x big blind; else the ladder falls through
\* to rules 2 and 3, so with owed > 2 x big blind CALL is still returned when
\* CALL is legal and pot odds >= 2.5, and CHECK (if legal) or FOLD otherwise.
C10_FallsThroughToRuleTwo ==
    C10_Case =>
        ret.action =
            IF Legal(RAISE) THEN RAISE
            ELSE IF Legal(CALL) /\ Owed <= 2 * call.gs.big_blind THEN CALL
            ELSE IF Owed = 0 THEN C10_CheckOrFold
            ELSE IF Legal(CALL) /\ 10 * call.gs.pot >= 25 * Owed THEN CALL
            ELSE C10_CheckOrFold

\* pocket aces facing 6 with a big blind of 2 and a pot of 40, no raise allowed
C10_Witness ==
    /\ C10_Case /\ ~Legal(RAISE) /\ Legal(CALL)
    /\ call.hole_cards = PocketAces
    /\ Owed = 6 /\ call.gs.big_blind = 2 /\ call.gs.pot = 40
    /\ ret = Returned(CALL, 0)

====
